---- MODULE Spec2Model ----
(***************************************************************************)
(* A model of the key-value synchronisation layer of tab-stash:            *)
(*   - KVSCache    (src/datastore/kvs/index.ts), specification Spec        *)
(*   - Client      (src/datastore/kvs/client.ts), specification ClientSpec *)
(*   - genericList (src/datastore/kvs/index.ts), specification ListSpec    *)
(* JavaScript runs one callback at a time; every `await` is a point where  *)
(* other callbacks (user calls, notifications) may run, so every action    *)
(* below is the code between two awaits.                                   *)
(***************************************************************************)
EXTENDS Integers, Sequences, FiniteSets, TLC

\* ---------------------------------------------------------------- bounds
\* Number of distinct keys and values the environment uses.
NumKeys == 2
NumVals == 2
\* Length of a batch of a background pass.  The source uses 100
\* (batchesOf(100, ...)); the model scales it down so that a pass over
\* NumKeys keys has more than one batch.
BatchSize == 1
\* Longest onSet / onDelete notification.
MaxNotify == 2
\* Connections a client opens at most (caps the count of disconnect signals).
MaxConnects == 3
\* Keys of the listed table are taken from 1..MaxKey.
MaxKey == 5
\* Page length of genericList.  The source uses 100 (getChunk(bound, 100));
\* the model scales it down so that a table of MaxKey keys has several pages.
PageSize == 2
\* Pages after which the model stops following an iteration.
MaxPages == 4

\* ------------------------------------------------------ program constants
\* `null`, the value of an entry that is not loaded / does not exist.
Null == 0
\* `undefined`: the result of Map.get for a key that is not in the map.
NoEntry == 0
\* The number of crashes after which the cache stops doing I/O.
CrashLimit == 3
\* `let retries = 10` of Client._request_with_retry.
Retries == 10
\* The unit of the delay between two attempts, in ms.
BackoffUnit == 100
\* `let bound: K | undefined`: genericList's bound before the first page.
NoBound == 0

Keys == 1..NumKeys
Vals == 1..NumVals
Refs == 1..NumKeys
MaybeVals == Vals \cup {Null}

VARIABLES
    \* ---- KVSCache
    entries,      \* _entries: key -> reference of its entry object, or NoEntry
    heap,         \* the entry objects: reference -> [key, value]
    needs_fetch,  \* _needs_fetch: insertion-ordered map key -> entry reference
    needs_flush,  \* _needs_flush: insertion-ordered map key -> entry reference
    io_pc,        \* position of the background cycle; "idle" iff _pending_io is null
    io_map,       \* the local `map` of the running _fetch()/_flush(): what is left of it
    call,         \* the outstanding call to the backing store (kvs.get / kvs.set)
    crash_count,  \* _crash_count
    sync_obs,     \* a caller of sync() and the promise it was handed
    ins,          \* the speculative maybeInsert() being followed, if any
    mark,         \* the set(), notification or declined maybeInsert() being followed, if any
    \* ---- Client
    port,         \* _port: the connection in use (connections are numbered as opened)
    connects,     \* how many times connect() was called
    disconnects,  \* how many disconnect signals were handled
    sync_lost,    \* how many times onSyncLost was sent, and the _port it was sent under
    req,          \* the running _request_with_retry(): position, retries, attempts
    \* ---- genericList
    table,        \* the keys of the table being listed
    strict,       \* whether the range operations leave the bound itself out
    reverse,      \* FALSE: list(), TRUE: listReverse()
    bound,        \* genericList's `bound` (NoBound: undefined)
    yielded,      \* the keys yielded so far
    list_pc       \* "run" | "done"

cacheVars == <<entries, heap, needs_fetch, needs_flush, io_pc, io_map, call,
               crash_count, sync_obs, ins, mark>>
clientVars == <<port, connects, disconnects, sync_lost, req>>
listVars == <<table, strict, reverse, bound, yielded, list_pc>>

vars == <<entries, heap, needs_fetch, needs_flush, io_pc, io_map, call,
          crash_count, sync_obs, ins, mark,
          port, connects, disconnects, sync_lost, req,
          table, strict, reverse, bound, yielded, list_pc>>

\* ------------------------------------------------------------------ Map<K, Entry>
\* Map.has
MapHas(m, k) == \E i \in 1..Len(m) : m[i].key = k

\* Map.set: an existing key keeps its place, a new key goes last.
MapSet(m, k, r) ==
    IF MapHas(m, k)
    THEN [i \in 1..Len(m) |-> IF m[i].key = k THEN [key |-> k, ent |-> r] ELSE m[i]]
    ELSE Append(m, [key |-> k, ent |-> r])

\* Map.delete
MapDelete(m, k) == SelectSeq(m, LAMBDA x : x.key # k)

\* Map.keys as a set
MapKeys(m) == {m[i].key : i \in 1..Len(m)}

\* batchesOf that yields one batch and drops the rest.
RestBatches_Dropped(m) == SubSeq(m, 1, 0)

\* batchesOf(n, iter): the first batch and what is left after it.
FirstBatch(m) == SubSeq(m, 1, IF Len(m) < BatchSize THEN Len(m) ELSE BatchSize)
RestBatches(m) == SubSeq(m, (IF Len(m) < BatchSize THEN Len(m) ELSE BatchSize) + 1, Len(m))

\* ------------------------------------------------------------------ the store
StoreHas(s, k) == \E e \in s : e.key = k
StoreValue(s, k) == (CHOOSE e \in s : e.key = k).value

\* KeyValueStore.get(keys): the entries of the keys that are present, in
\* the order asked; absent keys are left out.
RECURSIVE StoreGet(_, _)
StoreGet(s, ks) ==
    IF ks = <<>> THEN <<>>
    ELSE LET k == Head(ks) IN
         (IF StoreHas(s, k) THEN <<[key |-> k, value |-> StoreValue(s, k)]>> ELSE <<>>)
            \o StoreGet(s, Tail(ks))

\* The tables the backing store may hold when it answers: one entry per key
\* at most.  (A value of Null is an entry that was written with value null.)
Tables == {t \in SUBSET [key : Keys, value : MaybeVals] :
             \A e1, e2 \in t : e1.key = e2.key => e1 = e2}

\* ------------------------------------------------------------------ KVSCache
NoCall == [type |-> "none"]
NoSync == [state |-> "none"]

\* The cache's own fields as one record, so that the private helpers can be
\* written as functions from cache state to cache state.
Cache == [entries |-> entries, heap |-> heap, needs_fetch |-> needs_fetch,
          needs_flush |-> needs_flush, io_pc |-> io_pc, crash_count |-> crash_count]

\* _io() without the test of _pending_io: every call starts a cycle.
Io_Restarts(c) ==
    IF c.crash_count >= CrashLimit THEN c
    ELSE [c EXCEPT !.io_pc = "scheduled"]

\* _io() without the crash limit.
Io_NoLimit(c) ==
    IF c.io_pc # "idle" THEN c
    ELSE [c EXCEPT !.io_pc = "scheduled"]

\* _io(): start a background cycle unless one is pending or I/O is disabled.
\* (The body of the cycle is the actions IoLoop .. IoFinally below.)
Io(c) ==
    IF c.io_pc # "idle" THEN c
    ELSE IF c.crash_count >= CrashLimit THEN c
    ELSE [c EXCEPT !.io_pc = "scheduled"]

\* A cache that hands out one and the same entry object for every key.
NewRef_Shared(c) == 1

\* reactive({key, value: null}): a new entry object.
NewRef(c) == Cardinality({k \in Keys : c.entries[k] # NoEntry}) + 1

\* get() that creates the entry but does not ask for it to be fetched.
CacheGet_NoFetch(c, k) ==
    IF c.entries[k] # NoEntry THEN c
    ELSE LET r == NewRef(c) IN
         Io([c EXCEPT !.entries[k] = r,
                      !.heap[r] = [key |-> k, value |-> Null]])

\* get(key): the state after the call ...
CacheGet(c, k) ==
    IF c.entries[k] # NoEntry THEN c
    ELSE LET r == NewRef(c) IN
         Io([c EXCEPT !.entries[k] = r,
                      !.heap[r] = [key |-> k, value |-> Null],
                      !.needs_fetch = MapSet(c.needs_fetch, k, r)])

\* ... and the entry it returns.
CacheGetRet(c, k) == IF c.entries[k] # NoEntry THEN c.entries[k] ELSE NewRef(c)

\* getIfExists(key): the entry it returns (NoEntry: undefined).
CacheGetIfExists(c, k) == c.entries[k]

\* set() that, like maybeInsert(), leaves a loaded value alone.
CacheSet_KeepsLoaded(c, k, v) ==
    LET c1 == CacheGet(c, k)
        ent == CacheGetRet(c, k)
    IN Io([c1 EXCEPT !.heap[ent].value = IF @ = Null THEN v ELSE @,
                     !.needs_flush = MapSet(c1.needs_flush, k, ent),
                     !.needs_fetch = MapDelete(c1.needs_fetch, k)])

\* set(key, value)
CacheSet(c, k, v) ==
    LET c1 == CacheGet(c, k)
        ent == CacheGetRet(c, k)
    IN Io([c1 EXCEPT !.heap[ent].value = v,
                     !.needs_flush = MapSet(c1.needs_flush, k, ent),
                     !.needs_fetch = MapDelete(c1.needs_fetch, k)])

\* maybeInsert() that writes whatever the entry holds.
CacheMaybeInsert_Always(c, k, v) ==
    LET c1 == CacheGet(c, k)
        ent == CacheGetRet(c, k)
    IN Io([c1 EXCEPT !.heap[ent].value = v,
                     !.needs_fetch = MapSet(c1.needs_fetch, k, ent),
                     !.needs_flush = MapSet(c1.needs_flush, k, ent)])

\* maybeInsert(key, value)
CacheMaybeInsert(c, k, v) ==
    LET c1 == CacheGet(c, k)
        ent == CacheGetRet(c, k)
    IN IF c1.heap[ent].value # Null THEN c1
       ELSE Io([c1 EXCEPT !.heap[ent].value = v,
                          !.needs_fetch = MapSet(c1.needs_fetch, k, ent),
                          !.needs_flush = MapSet(c1.needs_flush, k, ent)])

\* _update() that leaves a pending flush of the key in place.
Update_KeepsFlush(c, k, v) ==
    LET ent == c.entries[k] IN
    IF ent = NoEntry THEN c
    ELSE [c EXCEPT !.heap[ent].value = v,
                   !.needs_fetch = MapDelete(c.needs_fetch, k)]

\* _update() that leaves a pending fetch of the key in place.
Update_KeepsFetch(c, k, v) ==
    LET ent == c.entries[k] IN
    IF ent = NoEntry THEN c
    ELSE [c EXCEPT !.heap[ent].value = v,
                   !.needs_flush = MapDelete(c.needs_flush, k)]

\* _update(key, value)
Update(c, k, v) ==
    LET ent == c.entries[k] IN
    IF ent = NoEntry THEN c
    ELSE [c EXCEPT !.heap[ent].value = v,
                   !.needs_fetch = MapDelete(c.needs_fetch, k),
                   !.needs_flush = MapDelete(c.needs_flush, k)]

\* for (const e of entries) this._update(e.key, e.value)
RECURSIVE UpdateAll(_, _)
UpdateAll(c, es) ==
    IF es = <<>> THEN c
    ELSE UpdateAll(Update(c, Head(es).key, Head(es).value), Tail(es))

\* The onSyncLost listener: for (const [k, v] of this._entries) {...}; this._io()
RECURSIVE SyncLostLoop(_, _)
SyncLostLoop(c, ks) ==
    IF ks = {} THEN c
    ELSE LET k == CHOOSE x \in ks : \A y \in ks : c.entries[x] <= c.entries[y]
             r == c.entries[k]
         IN SyncLostLoop([c EXCEPT !.heap[r].value = Null,
                                   !.needs_fetch = MapSet(c.needs_fetch, k, r)],
                         ks \ {k})

\* The listener without its re-queueing: values are cleared, nothing is fetched.
CacheSyncLost_NoRefetch(c) ==
    Io([c EXCEPT !.heap = [r \in Refs |-> [c.heap[r] EXCEPT !.value = Null]]])

CacheSyncLost(c) == Io(SyncLostLoop(c, {k \in Keys : c.entries[k] # NoEntry}))

\* JSON.parse(JSON.stringify(batch)): plain copies of the entries of a batch,
\* with the values the entry objects hold now.
Serialise(h, batch) ==
    [i \in 1..Len(batch) |-> [key |-> h[batch[i].ent].key, value |-> h[batch[i].ent].value]]

\* The keys of a batch of _needs_fetch.
BatchKeys(batch) == [i \in 1..Len(batch) |-> batch[i].key]

\* The caller of sync() keeps waiting on its promise.  Of the work that was
\* queued when it called, `fetch` and `flush` hold what has stayed in the queues
\* ever since.
Observe ==
    sync_obs' = IF sync_obs.state = "waiting"
                THEN [sync_obs EXCEPT !.fetch = @ \cap MapKeys(needs_fetch'),
                                      !.flush = @ \cap MapKeys(needs_flush')]
                ELSE sync_obs

\* Following one speculative insert: maybeInsert(key, value) on an unset entry
\* is "pending" until the fetch of the key is answered from a table that holds
\* a value of the key ("fetched": `held` is that value, `got` what the entry
\* holds after the answer).  It is dropped when the key is written again, the
\* flush of the key is sent first, the fetch fails, or the table has no value
\* of the key.
NoIns == [state |-> "none"]
InsOff == [state |-> "off"]

InsWritten(k) ==
    IF ins.state \in {"pending", "fetched"} /\ ins.key = k THEN NoIns ELSE ins

InsInserted(k, v) ==
    IF ins.state = "none" \/ (ins.state \in {"pending", "fetched"} /\ ins.key = k)
    THEN [state |-> "pending", key |-> k, value |-> v]
    ELSE ins

InsAnswered(t, h) ==
    IF ins.state = "pending" /\ ins.key \in {call.keys[i] : i \in 1..Len(call.keys)}
    THEN IF StoreHas(t, ins.key) /\ StoreValue(t, ins.key) # Null
         THEN [state |-> "fetched", key |-> ins.key, value |-> ins.value,
               held |-> StoreValue(t, ins.key), got |-> h[entries[ins.key]].value]
         ELSE NoIns
    ELSE ins

InsFetchFailed ==
    IF ins.state = "pending" /\
       ins.key \in {call.keys[i] : i \in 1..Len(call.keys)} \cup MapKeys(io_map)
    THEN NoIns ELSE ins

InsFlushSent(c) ==
    IF ins.state = "pending" /\ c.type = "set" /\
       ins.key \in {c.entries[i].key : i \in 1..Len(c.entries)}
    THEN NoIns ELSE ins

\* Following one event on one key.  A set(key, value) is "written" until its
\* write is sent in a flush, or is "overwritten" by the answer to a fetch of
\* the key (no fetch of the key is requested while it is followed, so the
\* answer is to a fetch requested before the set).  A notification that was
\* applied to a tracked key is "notified" (`old`: the local value that was
\* waiting to be flushed, Null if none) until the answer to a fetch has
\* "replaced" the notified value by another, or a flush has sent the old local
\* value ("stale_write").  Following ends when the key is queued for fetch
\* again.  A maybeInsert(key, value) that finds the entry loaded is "declined"
\* (`kept`: the value it found) until another event is followed.
NoMark == [state |-> "none"]
MarkOff == [state |-> "off"]
MarkFree == {"none", "declined"}

\* The keys the running flush pass has taken from _needs_flush and not yet sent.
FlushTaken == IF io_pc = "flushing" THEN MapKeys(io_map) ELSE {}

MarkSet(k, v) ==
    IF mark.state = "off" THEN mark
    ELSE IF mark.state \in MarkFree \/ mark.key = k
    THEN [state |-> "written", key |-> k, value |-> v]
    ELSE mark

MarkMaybeInsert(k, v) ==
    IF mark.state = "off" THEN mark
    ELSE IF entries[k] # NoEntry /\ heap[entries[k]].value # Null
    THEN IF mark.state \in MarkFree
         THEN [state |-> "declined", key |-> k, value |-> v,
               kept |-> heap[entries[k]].value]
         ELSE mark
    ELSE IF mark.state # "none" /\ mark.key = k THEN NoMark
    ELSE mark

\* `es`: the entries of an onSet, or of an onDelete with values Null.  The key
\* of the first entry is followed, with the value of its last entry.
MarkNotified(es) ==
    LET k == es[1].key
        ks == {es[i].key : i \in 1..Len(es)}
        last == CHOOSE i \in 1..Len(es) :
                    es[i].key = k /\ \A j \in (i + 1)..Len(es) : es[j].key # k
    IN IF mark.state = "off" THEN mark
       ELSE IF entries[k] # NoEntry /\ (mark.state \in MarkFree \/ mark.key \in ks)
       THEN [state |-> "notified", key |-> k, value |-> es[last].value,
             old |-> IF MapHas(needs_flush, k) \/ k \in FlushTaken
                     THEN heap[entries[k]].value ELSE Null]
       ELSE IF mark.state # "none" /\ mark.key \in ks THEN NoMark
       ELSE mark

MarkSyncLost ==
    IF mark.state = "off" THEN mark ELSE NoMark

\* kvs.get answers from table t.
MarkAnswered(t) ==
    IF mark.state \in {"written", "notified"}
       /\ mark.key \in {call.keys[i] : i \in 1..Len(call.keys)}
       /\ StoreHas(t, mark.key)
    THEN IF mark.state = "written"
         THEN [state |-> "overwritten", key |-> mark.key, value |-> mark.value,
               got |-> StoreValue(t, mark.key)]
         ELSE IF StoreValue(t, mark.key) # mark.value
         THEN [state |-> "replaced", key |-> mark.key, value |-> mark.value,
               got |-> StoreValue(t, mark.key)]
         ELSE mark
    ELSE mark

\* kvs.set is called with the entries of c.
MarkFlushSent(c) ==
    IF mark.state \in {"written", "notified"} /\ c.type = "set"
       /\ \E i \in 1..Len(c.entries) : c.entries[i].key = mark.key
    THEN LET e == CHOOSE x \in {c.entries[i] : i \in 1..Len(c.entries)} : x.key = mark.key IN
         IF mark.state = "written" THEN NoMark
         ELSE IF mark.old # Null /\ e.value = mark.old /\ e.value # mark.value
         THEN [state |-> "stale_write", key |-> mark.key, value |-> mark.value,
               carried |-> e.value]
         ELSE mark
    ELSE mark

\* Write a cache record back to the variables.
Install(c) ==
    /\ entries' = c.entries
    /\ heap' = c.heap
    /\ needs_fetch' = c.needs_fetch
    /\ needs_flush' = c.needs_flush
    /\ io_pc' = c.io_pc
    /\ crash_count' = c.crash_count

\* new KVSCache(kvs)
CacheInit ==
    /\ entries = [k \in Keys |-> NoEntry]
    /\ heap = [r \in Refs |-> [key |-> 0, value |-> Null]]
    /\ needs_fetch = <<>>
    /\ needs_flush = <<>>
    /\ io_pc = "idle"
    /\ io_map = <<>>
    /\ call = NoCall
    /\ crash_count = 0
    /\ sync_obs = NoSync

\* ---- the public methods
Get(k) ==
    /\ Install(CacheGet(Cache, k))
    /\ UNCHANGED <<io_map, call>>
    /\ Observe
    /\ UNCHANGED ins
    /\ UNCHANGED mark
    /\ UNCHANGED <<clientVars, listVars>>

GetIfExists(k) ==
    /\ CacheGetIfExists(Cache, k) \in Refs \cup {NoEntry}
    /\ UNCHANGED <<entries, heap, needs_fetch, needs_flush, io_pc, io_map, call,
                   crash_count>>
    /\ Observe
    /\ UNCHANGED ins
    /\ UNCHANGED mark
    /\ UNCHANGED <<clientVars, listVars>>

Set(k, v) ==
    /\ Install(CacheSet(Cache, k, v))
    /\ UNCHANGED <<io_map, call>>
    /\ Observe
    /\ ins' = InsWritten(k)
    /\ mark' = MarkSet(k, v)
    /\ UNCHANGED <<clientVars, listVars>>

MaybeInsert(k, v) ==
    /\ Install(CacheMaybeInsert(Cache, k, v))
    /\ UNCHANGED <<io_map, call>>
    /\ Observe
    /\ ins' = IF entries[k] = NoEntry \/ heap[entries[k]].value = Null
              THEN InsInserted(k, v) ELSE ins
    /\ mark' = MarkMaybeInsert(k, v)
    /\ UNCHANGED <<clientVars, listVars>>

\* sync(): the pending cycle's promise, or a resolved one.  `pending` tells
\* whether work of the time of the call is still queued when the promise
\* resolves.
Sync ==
    /\ sync_obs.state # "waiting"
    /\ sync_obs' = IF io_pc # "idle"
                   THEN [state |-> "waiting", fetch |-> MapKeys(needs_fetch),
                         flush |-> MapKeys(needs_flush)]
                   ELSE [state |-> "resolved", immediate |-> TRUE,
                         pending |-> (needs_fetch # <<>> \/ needs_flush # <<>>)]
    /\ UNCHANGED <<entries, heap, needs_fetch, needs_flush, io_pc, io_map, call,
                   crash_count>>
    /\ UNCHANGED ins
    /\ UNCHANGED mark
    /\ UNCHANGED <<clientVars, listVars>>

\* ---- the listeners the constructor installs
OnSet(es) ==
    /\ Install(UpdateAll(Cache, es))
    /\ UNCHANGED <<io_map, call>>
    /\ Observe
    /\ UNCHANGED ins
    /\ mark' = MarkNotified(es)
    /\ UNCHANGED <<clientVars, listVars>>

OnDelete(ks) ==
    /\ Install(UpdateAll(Cache, [i \in 1..Len(ks) |-> [key |-> ks[i], value |-> Null]]))
    /\ UNCHANGED <<io_map, call>>
    /\ Observe
    /\ UNCHANGED ins
    /\ mark' = MarkNotified([i \in 1..Len(ks) |-> [key |-> ks[i], value |-> Null]])
    /\ UNCHANGED <<clientVars, listVars>>

OnSyncLost ==
    /\ Install(CacheSyncLost(Cache))
    /\ UNCHANGED <<io_map, call>>
    /\ Observe
    /\ UNCHANGED ins
    /\ mark' = MarkSyncLost
    /\ UNCHANGED <<clientVars, listVars>>

\* ---- the background cycle started by _io()
\* later(...) has fired, or `await this._flush()` has resumed: the test of the
\* while loop, then the part of _fetch() up to its first await.
IoLoop ==
    /\ io_pc \in {"scheduled", "flushed"}
    /\ IF needs_fetch = <<>> /\ needs_flush = <<>>
       THEN /\ io_pc' = "finally"
            /\ UNCHANGED <<needs_fetch, io_map, call>>
       ELSE /\ needs_fetch' = <<>>
            /\ IF needs_fetch = <<>>
               THEN /\ io_pc' = "fetched"
                    /\ UNCHANGED <<io_map, call>>
               ELSE /\ io_pc' = "fetching"
                    /\ call' = [type |-> "get", keys |-> BatchKeys(FirstBatch(needs_fetch))]
                    /\ io_map' = RestBatches(needs_fetch)
    /\ UNCHANGED <<entries, heap, needs_flush, crash_count>>
    /\ Observe
    /\ UNCHANGED ins
    /\ UNCHANGED mark
    /\ UNCHANGED <<clientVars, listVars>>

\* kvs.get(batch) answers from the table `t` the store holds by then: the
\* entries are applied, then the next batch is asked for, or _fetch() returns.
KvsGetReturns(t) ==
    /\ io_pc = "fetching"
    /\ LET c == UpdateAll(Cache, StoreGet(t, call.keys)) IN
       /\ entries' = c.entries
       /\ heap' = c.heap
       /\ needs_fetch' = c.needs_fetch
       /\ needs_flush' = c.needs_flush
    /\ IF io_map = <<>>
       THEN /\ io_pc' = "fetched"
            /\ call' = NoCall
            /\ UNCHANGED io_map
       ELSE /\ io_pc' = "fetching"
            /\ call' = [type |-> "get", keys |-> BatchKeys(FirstBatch(io_map))]
            /\ io_map' = RestBatches(io_map)
    /\ UNCHANGED <<crash_count>>
    /\ Observe
    /\ ins' = InsAnswered(t, heap')
    /\ mark' = MarkAnswered(t)
    /\ UNCHANGED <<clientVars, listVars>>

\* kvs.get(batch) rejects: _fetch() throws, its local map is lost.
KvsGetThrows ==
    /\ io_pc = "fetching"
    /\ io_pc' = "crashed"
    /\ call' = NoCall
    /\ io_map' = <<>>
    /\ UNCHANGED <<entries, heap, needs_fetch, needs_flush, crash_count>>
    /\ Observe
    /\ ins' = InsFetchFailed
    /\ UNCHANGED mark
    /\ UNCHANGED <<clientVars, listVars>>

\* `await this._fetch()` resumes; _flush() runs up to its first await.
FlushStart ==
    /\ io_pc = "fetched"
    /\ needs_flush' = <<>>
    /\ IF needs_flush = <<>>
       THEN /\ io_pc' = "flushed"
            /\ UNCHANGED <<io_map, call>>
       ELSE /\ io_pc' = "flushing"
            /\ call' = [type |-> "set", entries |-> Serialise(heap, FirstBatch(needs_flush))]
            /\ io_map' = RestBatches(needs_flush)
    /\ UNCHANGED <<entries, heap, needs_fetch, crash_count>>
    /\ Observe
    /\ ins' = InsFlushSent(call')
    /\ mark' = MarkFlushSent(call')
    /\ UNCHANGED <<clientVars, listVars>>

\* kvs.set(dirty) answers: the next batch is serialised and sent, or _flush()
\* returns.
KvsSetReturns ==
    /\ io_pc = "flushing"
    /\ IF io_map = <<>>
       THEN /\ io_pc' = "flushed"
            /\ call' = NoCall
            /\ UNCHANGED io_map
       ELSE /\ io_pc' = "flushing"
            /\ call' = [type |-> "set", entries |-> Serialise(heap, FirstBatch(io_map))]
            /\ io_map' = RestBatches(io_map)
    /\ UNCHANGED <<entries, heap, needs_fetch, needs_flush, crash_count>>
    /\ Observe
    /\ ins' = InsFlushSent(call')
    /\ mark' = MarkFlushSent(call')
    /\ UNCHANGED <<clientVars, listVars>>

\* kvs.set(dirty) rejects: _flush() throws, its local map is lost.
KvsSetThrows ==
    /\ io_pc = "flushing"
    /\ io_pc' = "crashed"
    /\ call' = NoCall
    /\ io_map' = <<>>
    /\ UNCHANGED <<entries, heap, needs_fetch, needs_flush, crash_count>>
    /\ Observe
    /\ UNCHANGED ins
    /\ UNCHANGED mark
    /\ UNCHANGED <<clientVars, listVars>>

\* .catch(e => { ++this._crash_count; ...; throw e })
IoCatch ==
    /\ io_pc = "crashed"
    /\ crash_count' = crash_count + 1
    /\ io_pc' = "finally"
    /\ UNCHANGED <<entries, heap, needs_fetch, needs_flush, io_map, call>>
    /\ Observe
    /\ UNCHANGED ins
    /\ UNCHANGED mark
    /\ UNCHANGED <<clientVars, listVars>>

\* .finally(() => { this._pending_io = null; resolve() })
IoFinally ==
    /\ io_pc = "finally"
    /\ io_pc' = "idle"
    /\ sync_obs' = IF sync_obs.state = "waiting"
                   THEN [state |-> "resolved", immediate |-> FALSE,
                         pending |-> (sync_obs.fetch # {} \/ sync_obs.flush # {})]
                   ELSE sync_obs
    /\ UNCHANGED <<entries, heap, needs_fetch, needs_flush, io_map, call,
                   crash_count>>
    /\ UNCHANGED ins
    /\ UNCHANGED mark
    /\ UNCHANGED <<clientVars, listVars>>

\* The notifications the environment sends: up to MaxNotify entries (keys).
RECURSIVE SeqsUpTo(_, _)
SeqsUpTo(S, n) ==
    IF n = 0 THEN {<<>>}
    ELSE LET shorter == SeqsUpTo(S, n - 1) IN
         shorter \cup {Append(q, x) : q \in shorter, x \in S}

SetNotifications == SeqsUpTo([key : Keys, value : Vals], MaxNotify) \ {<<>>}
DeleteNotifications == SeqsUpTo(Keys, MaxNotify) \ {<<>>}

\* ------------------------------------------------------------------ Client
NoReq == [pc |-> "idle", retries |-> 0, attempts |-> 0, first_on |-> 0, on |-> 0,
          delay |-> 0, result |-> [kind |-> "none", attempt |-> 0]]

\* The client's own fields as one record.
ClientState == [port |-> port, connects |-> connects]

\* _reconnect() that opens a spare connection as well.
Reconnect_Twice(c) == [c EXCEPT !.port = c.connects + 2, !.connects = c.connects + 2]

\* _reconnect(): this._port = this.connect(this.name), then the handlers of the
\* new connection are installed.
Reconnect(c) == [c EXCEPT !.port = c.connects + 1, !.connects = c.connects + 1]

\* The onDisconnect handler: this._reconnect(); this.onSyncLost.send().
\* `seen` is the _port the listeners of onSyncLost find.
DisconnectHandler(c, lost) ==
    LET c1 == Reconnect(c) IN
    [client |-> c1, lost |-> [count |-> lost.count + 1, seen |-> c1.port]]

\* An attempt that uses the connection the request started on.
Attempt_StalePort(c, r) ==
    [r EXCEPT !.pc = "sent", !.on = IF r.attempts = 0 THEN c.port ELSE r.first_on,
              !.attempts = r.attempts + 1,
              !.first_on = IF r.attempts = 0 THEN c.port ELSE r.first_on]

\* One attempt of _request_with_retry: this._port.request(msg).
\* (`first_on` keeps the connection of the request's first attempt.)
Attempt(c, r) ==
    [r EXCEPT !.pc = "sent", !.on = c.port, !.attempts = r.attempts + 1,
              !.first_on = IF r.attempts = 0 THEN c.port ELSE r.first_on]

\* A catch block that gives up one attempt early (retries <= 1).
Catch_OneLess(r, kind) ==
    IF kind # "transport"
    THEN [r EXCEPT !.pc = "done", !.result = [kind |-> kind, attempt |-> r.attempts]]
    ELSE IF r.retries <= 1
    THEN [r EXCEPT !.pc = "done", !.result = [kind |-> kind, attempt |-> r.attempts]]
    ELSE [r EXCEPT !.pc = "backoff", !.delay = (Retries - r.retries) * BackoffUnit]

\* A catch block that gives up one attempt late (retries < 0).
Catch_OneMore(r, kind) ==
    IF kind # "transport"
    THEN [r EXCEPT !.pc = "done", !.result = [kind |-> kind, attempt |-> r.attempts]]
    ELSE IF r.retries < 0
    THEN [r EXCEPT !.pc = "done", !.result = [kind |-> kind, attempt |-> r.attempts]]
    ELSE [r EXCEPT !.pc = "backoff", !.delay = (Retries - r.retries) * BackoffUnit]

\* The catch block of _request_with_retry for an error of kind `kind`
\* ("transport": a NanoPortError; "service": any other error).
Catch(r, kind) ==
    IF kind # "transport"
    THEN [r EXCEPT !.pc = "done", !.result = [kind |-> kind, attempt |-> r.attempts]]
    ELSE IF r.retries <= 0
    THEN [r EXCEPT !.pc = "done", !.result = [kind |-> kind, attempt |-> r.attempts]]
    ELSE [r EXCEPT !.pc = "backoff", !.delay = (Retries - r.retries) * BackoffUnit]

\* new Client(name, connector): the constructor calls _reconnect().
ClientInit ==
    /\ port = 1
    /\ connects = 1
    /\ disconnects = 0
    /\ sync_lost = [count |-> 0, seen |-> 0]
    /\ req = NoReq

\* A call of get/getStartingFrom/getEndingAt/set/delete/deleteAll enters
\* _request_with_retry and makes its first attempt.
Request ==
    /\ req.pc \in {"idle", "done"}
    /\ req' = Attempt(ClientState, [NoReq EXCEPT !.retries = Retries])
    /\ UNCHANGED <<port, connects, disconnects, sync_lost>>
    /\ UNCHANGED <<cacheVars, listVars>>

\* The attempt's promise resolves: the response is returned.
RequestReturns ==
    /\ req.pc = "sent"
    /\ req' = [req EXCEPT !.pc = "done", !.result = [kind |-> "ok", attempt |-> req.attempts]]
    /\ UNCHANGED <<port, connects, disconnects, sync_lost>>
    /\ UNCHANGED <<cacheVars, listVars>>

\* The attempt's promise rejects with an error of kind `kind`.
RequestThrows(kind) ==
    /\ req.pc = "sent"
    /\ req' = Catch(req, kind)
    /\ UNCHANGED <<port, connects, disconnects, sync_lost>>
    /\ UNCHANGED <<cacheVars, listVars>>

\* The timer of the backoff fires: --retries, and the loop attempts again.
BackoffDone ==
    /\ req.pc = "backoff"
    /\ req' = Attempt(ClientState, [req EXCEPT !.retries = req.retries - 1])
    /\ UNCHANGED <<port, connects, disconnects, sync_lost>>
    /\ UNCHANGED <<cacheVars, listVars>>

\* The connection in use reports a disconnect (each connection does at most once).
Disconnect ==
    /\ connects < MaxConnects
    /\ LET h == DisconnectHandler(ClientState, sync_lost) IN
       /\ port' = h.client.port
       /\ connects' = h.client.connects
       /\ sync_lost' = h.lost
    /\ disconnects' = disconnects + 1
    /\ UNCHANGED req
    /\ UNCHANGED <<cacheVars, listVars>>

\* ------------------------------------------------------------------ genericList
\* The keys of a set in ascending order.
RECURSIVE Ascending(_)
Ascending(S) ==
    IF S = {} THEN <<>>
    ELSE LET m == CHOOSE x \in S : \A y \in S : x <= y IN <<m>> \o Ascending(S \ {m})

\* The keys of a set in descending order.
RECURSIVE Descending(_)
Descending(S) ==
    IF S = {} THEN <<>>
    ELSE LET m == CHOOSE x \in S : \A y \in S : x >= y IN <<m>> \o Descending(S \ {m})

Take(q, n) == SubSeq(q, 1, IF Len(q) < n THEN Len(q) ELSE n)

\* getStartingFrom(bound, limit): up to `limit` keys from the bound on,
\* ascending; `open` tells whether the bound itself is left out.
GetStartingFrom(t, b, limit, open) ==
    Take(Ascending({k \in t : b = NoBound \/ k > b \/ (~open /\ k = b)}), limit)

\* getEndingAt(bound, limit): up to `limit` keys up to the bound, descending.
GetEndingAt(t, b, limit, open) ==
    Take(Descending({k \in t : b = NoBound \/ k < b \/ (~open /\ k = b)}), limit)

\* The getChunk that list() / listReverse() hand to genericList.
GetChunk(b, limit) ==
    IF reverse THEN GetEndingAt(table, b, limit, strict)
    ELSE GetStartingFrom(table, b, limit, strict)

\* A round that leaves the bound where it is.
GenericListStep_KeepsBound(b, out) ==
    LET res == GetChunk(b, PageSize) IN
    IF Len(res) = 0 THEN [pc |-> "done", bound |-> b, yielded |-> out]
    ELSE [pc |-> "run", bound |-> b, yielded |-> out \o res]

\* A round that moves the bound to the first key of the page.
GenericListStep_FirstKey(b, out) ==
    LET res == GetChunk(b, PageSize) IN
    IF Len(res) = 0 THEN [pc |-> "done", bound |-> b, yielded |-> out]
    ELSE [pc |-> "run", bound |-> res[1], yielded |-> out \o res]

\* One round of genericList's loop: the page, and the state after it.
GenericListStep(b, out) ==
    LET res == GetChunk(b, PageSize) IN
    IF Len(res) = 0 THEN [pc |-> "done", bound |-> b, yielded |-> out]
    ELSE [pc |-> "run", bound |-> res[Len(res)], yielded |-> out \o res]

ListInit ==
    /\ table = {}
    /\ strict = TRUE
    /\ reverse = FALSE
    /\ bound = NoBound
    /\ yielded = <<>>
    /\ list_pc = "done"

\* list() / listReverse() on some table.
ListStart ==
    /\ table \in SUBSET (1..MaxKey)
    /\ strict \in BOOLEAN
    /\ reverse \in BOOLEAN
    /\ bound = NoBound
    /\ yielded = <<>>
    /\ list_pc = "run"

ListStep ==
    /\ list_pc = "run"
    /\ Len(yielded) < MaxPages * PageSize
    /\ LET n == GenericListStep(bound, yielded) IN
       /\ list_pc' = n.pc
       /\ bound' = n.bound
       /\ yielded' = n.yielded
    /\ UNCHANGED <<table, strict, reverse>>
    /\ UNCHANGED <<cacheVars, clientVars>>

\* ------------------------------------------------------------ specifications
Init ==
    /\ CacheInit
    /\ ins = InsOff
    /\ mark = MarkOff
    /\ ClientInit
    /\ ListInit

Next ==
    \/ \E k \in Keys : Get(k)
    \/ \E k \in Keys : GetIfExists(k)
    \/ \E k \in Keys, v \in Vals : Set(k, v)
    \/ \E k \in Keys, v \in Vals : MaybeInsert(k, v)
    \/ \E es \in SetNotifications : OnSet(es)
    \/ \E ks \in DeleteNotifications : OnDelete(ks)
    \/ OnSyncLost
    \/ IoLoop
    \/ \E t \in Tables : KvsGetReturns(t)
    \/ KvsGetThrows
    \/ FlushStart
    \/ KvsSetReturns
    \/ KvsSetThrows
    \/ IoCatch
    \/ IoFinally

\* The cache, its users and its backing store.
Spec == Init /\ [][Next]_vars

\* The cache with one speculative insert followed.
InsertInit ==
    /\ CacheInit
    /\ ins = NoIns
    /\ mark = MarkOff
    /\ ClientInit
    /\ ListInit

InsertSpec == InsertInit /\ [][Next]_vars

\* The cache with one set(), notification or declined maybeInsert() followed.
MarkInit ==
    /\ CacheInit
    /\ ins = InsOff
    /\ mark = NoMark
    /\ ClientInit
    /\ ListInit

MarkSpec == MarkInit /\ [][Next]_vars

\* The cache with a caller of sync().
SyncNext ==
    \/ \E k \in Keys : Get(k)
    \/ \E k \in Keys, v \in Vals : Set(k, v)
    \/ \E k \in Keys, v \in Vals : MaybeInsert(k, v)
    \/ Sync
    \/ OnSyncLost
    \/ IoLoop
    \/ \E t \in Tables : KvsGetReturns(t)
    \/ KvsGetThrows
    \/ FlushStart
    \/ KvsSetReturns
    \/ KvsSetThrows
    \/ IoCatch
    \/ IoFinally

SyncSpec == Init /\ [][SyncNext]_vars

\* The client and its transport.
ClientSpecInit ==
    /\ CacheInit
    /\ ins = InsOff
    /\ mark = MarkOff
    /\ ClientInit
    /\ ListInit

ClientNext ==
    \/ Request
    \/ RequestReturns
    \/ \E kind \in {"transport", "service"} : RequestThrows(kind)
    \/ BackoffDone
    \/ Disconnect

ClientSpec == ClientSpecInit /\ [][ClientNext]_vars

\* genericList over a table that does not change.
ListSpecInit ==
    /\ CacheInit
    /\ ins = InsOff
    /\ mark = MarkOff
    /\ ClientInit
    /\ ListStart

ListNext == ListStep

ListSpec == ListSpecInit /\ [][ListNext]_vars

\* genericList driven by a consumer that keeps asking for the next entry.
ListLiveSpec == ListSpecInit /\ [][ListNext]_vars /\ WF_vars(ListStep)

\* ==================================================================== claims
Tracked(k) == entries[k] # NoEntry
Value(k) == heap[entries[k]].value
TrackedAfter(k) == entries'[k] # NoEntry
ValueAfter(k) == heap'[entries'[k]].value
Range(q) == {q[i] : i \in 1..Len(q)}

\* C1: immediately after set(k, v), before any step of the background cycle,
\* the tracked entry of k holds v, whether or not k was tracked before and
\* whatever was queued for k.
C1_SetIsImmediate ==
    [][\A k \in Keys, v \in Vals :
         Set(k, v) => TrackedAfter(k) /\ ValueAfter(k) = v]_vars

\* A set() has just written over a key that was queued for fetch: the entry is
\* loaded and waits for its flush only, and no step of the cycle has run.
C1_Witness ==
    \E k \in Keys :
        /\ Tracked(k) /\ Value(k) \in Vals
        /\ MapHas(needs_flush, k) /\ ~MapHas(needs_fetch, k)
        /\ io_pc = "scheduled"

\* C2: get(k) on a key never touched before returns at once an entry whose
\* value is unset and queues k for fetch; when the backing store answers the
\* fetch of k, the entry takes the store's value of k, and keeps what it held
\* (unset, for a key nothing else has touched) if the store has no entry of k.
C2_GetThenFetch ==
    [][\A k \in Keys :
         /\ (~Tracked(k) /\ Get(k)) =>
                /\ TrackedAfter(k) /\ ValueAfter(k) = Null
                /\ MapHas(needs_fetch', k)
                /\ io_pc' # "idle" \/ crash_count >= CrashLimit
         /\ \A t \in Tables :
                (Tracked(k) /\ KvsGetReturns(t) /\ k \in Range(call.keys)) =>
                    ValueAfter(k) = IF StoreHas(t, k) THEN StoreValue(t, k)
                                    ELSE Value(k)]_vars

\* The fetch of the only key the cache tracks has just been answered: the
\* entry is loaded and nothing is queued.
C2_Witness ==
    \E k \in Keys :
        /\ Tracked(k) /\ Value(k) \in Vals
        /\ \A k2 \in Keys \ {k} : ~Tracked(k2)
        /\ io_pc = "fetched" /\ needs_flush = <<>> /\ needs_fetch = <<>>

\* C3: fetch overrides flush.  When maybeInsert(k, v) has written an unset
\* entry and the fetch of k is answered, before the flush of k is sent, from a
\* table that holds a value v2 of k, the entry holds v2 after the answer, and
\* as long as k is not written again no flush carries k: k is not queued for
\* flush, not in the running flush pass and not in a call to kvs.set.
C3_FetchOverridesFlush ==
    ins.state = "fetched" =>
        /\ ins.got = ins.held
        /\ ~MapHas(needs_flush, ins.key)
        /\ ~(io_pc = "flushing" /\ ins.key \in MapKeys(io_map))
        /\ ~(call.type = "set" /\ ins.key \in {e.key : e \in Range(call.entries)})

\* The fetch has overridden an insert of another value, and the cycle has
\* since gone through its flush pass and ended.
C3_Witness ==
    /\ ins.state = "fetched" /\ ins.value # ins.held
    /\ Value(ins.key) = ins.held
    /\ io_pc = "idle" /\ needs_fetch = <<>> /\ needs_flush = <<>>

\* The last value a notification carries for a key.
RECURSIVE Notified(_, _, _)
Notified(es, k, dflt) ==
    IF es = <<>> THEN dflt
    ELSE Notified(Tail(es), k, IF Head(es).key = k THEN Head(es).value ELSE dflt)

AsDeletes(ks) == [i \in 1..Len(ks) |-> [key |-> ks[i], value |-> Null]]

\* What C4 asks of a notification `es` (onDelete: entries of value Null).
NotificationApplied(es) ==
    \A k \in Keys :
        IF ~Tracked(k) THEN ~TrackedAfter(k)
        ELSE IF k \in {e.key : e \in Range(es)}
        THEN /\ entries'[k] = entries[k]
             /\ ValueAfter(k) = Notified(es, k, Null)
             /\ ~MapHas(needs_fetch', k) /\ ~MapHas(needs_flush', k)
        ELSE /\ entries'[k] = entries[k]
             /\ ValueAfter(k) = Value(k)
             /\ MapHas(needs_fetch', k) = MapHas(needs_fetch, k)
             /\ MapHas(needs_flush', k) = MapHas(needs_flush, k)

\* C4: after an onSet / onDelete notification the entry of every tracked key
\* it names holds the notified value (unset for onDelete) and the key is in
\* neither queue, whatever local work was pending; untracked keys stay
\* untracked and nothing else changes.
C4_NotificationWins ==
    [][/\ \A es \in SetNotifications : OnSet(es) => NotificationApplied(es)
       /\ \A ks \in DeleteNotifications : OnDelete(ks) => NotificationApplied(AsDeletes(ks))]_vars

\* A notification has emptied both queues under a scheduled cycle while the
\* tracked entries hold values: local work was pending and is gone.
C4_Witness ==
    /\ io_pc = "scheduled"
    /\ needs_fetch = <<>> /\ needs_flush = <<>>
    /\ \A k \in Keys : Tracked(k)
    /\ \E k \in Keys : Value(k) = Null
    /\ \E k \in Keys : Value(k) \in Vals

\* C5: onSyncLost clears the value of every tracked entry and puts every tracked
\* key in the fetch queue; the tracked keys and their entry objects stay.
C5_SyncLostRefetchesAll ==
    [][OnSyncLost =>
         /\ entries' = entries
         /\ \A k \in Keys : Tracked(k) =>
                /\ ValueAfter(k) = Null
                /\ \E i \in 1..Len(needs_fetch') :
                       needs_fetch'[i] = [key |-> k, ent |-> entries[k]]]_vars

\* All keys are tracked, unset and queued for fetch, one of them with a write
\* still queued: only the sync-loss listener leaves a queued write unset.
C5_Witness ==
    /\ \A k \in Keys : Tracked(k) /\ Value(k) = Null /\ MapHas(needs_fetch, k)
    /\ \E k \in Keys : MapHas(needs_flush, k)

\* C6: once the cycle has failed CrashLimit times no call to the backing store
\* is ever made again, while get/set/maybeInsert still hand out entries at
\* once; below CrashLimit failures a get of a new key on an idle cache
\* schedules a cycle.
C6_CrashContainment ==
    /\ [](crash_count >= CrashLimit => call = NoCall /\ io_pc \in {"finally", "idle"})
    /\ [][/\ crash_count >= CrashLimit => crash_count' >= CrashLimit /\ call' = NoCall
          /\ \A k \in Keys :
                /\ Get(k) => TrackedAfter(k)
                /\ (~Tracked(k) /\ Get(k) /\ io_pc = "idle" /\ crash_count < CrashLimit)
                       => io_pc' = "scheduled"
                /\ \A v \in Vals :
                      /\ Set(k, v) => TrackedAfter(k) /\ ValueAfter(k) = v
                      /\ MaybeInsert(k, v) => TrackedAfter(k) /\ ValueAfter(k) # Null]_vars

\* I/O is disabled and entries have been created and written since: every key
\* is tracked and queued, and no cycle is pending.
C6_Witness ==
    /\ crash_count >= CrashLimit
    /\ io_pc = "idle"
    /\ \A k \in Keys : Tracked(k) /\ Value(k) \in Vals /\ MapHas(needs_flush, k)

\* C7: the retry policy.  A transport error is retried, Retries times at most,
\* and with the retries used up the transport error of the last attempt is
\* raised; any other error is raised at once; a response ends the request.
C7_RetryPolicy ==
    /\ [](/\ req.pc # "idle" => req.attempts - 1 <= Retries
          /\ req.pc = "done" =>
                /\ req.result.attempt = req.attempts
                /\ req.result.kind = "transport" => req.attempts - 1 = Retries)
    /\ [][/\ (RequestThrows("transport") /\ req.attempts - 1 < Retries) =>
                req'.pc = "backoff"
          /\ (RequestThrows("transport") /\ req.attempts - 1 >= Retries) =>
                req'.pc = "done" /\ req'.result = [kind |-> "transport", attempt |-> req.attempts]
          /\ RequestThrows("service") =>
                req'.pc = "done" /\ req'.result = [kind |-> "service", attempt |-> req.attempts]
          /\ RequestReturns =>
                req'.pc = "done" /\ req'.result = [kind |-> "ok", attempt |-> req.attempts]
          /\ req.pc = "done" => req'.pc = "done" \/ req'.attempts = 1]_vars

\* A request has raised the transport error of its last attempt after its
\* retries.
C7_Witness ==
    /\ req.pc = "done" /\ req.result.kind = "transport"
    /\ req.attempts = Retries + 1

\* C8: each disconnect signal opens exactly one connection and sends
\* onSyncLost exactly once, with the new connection already installed; every
\* attempt made from then on goes to the new connection.
C8_ReconnectOnDisconnect ==
    /\ [](/\ sync_lost.count = disconnects
          /\ connects = 1 + disconnects
          /\ port = connects
          /\ sync_lost.count > 0 => sync_lost.seen = port)
    /\ [][/\ disconnects' = disconnects + 1 =>
                /\ connects' = connects + 1
                /\ port' = connects' /\ port' # port
                /\ sync_lost' = [count |-> sync_lost.count + 1, seen |-> port']
          /\ disconnects' = disconnects \/ disconnects' = disconnects + 1
          /\ (req'.pc = "sent" /\ req'.attempts # req.attempts) =>
                req'.on = port' /\ req'.on = connects']_vars

\* A retry of a request that started before a disconnect is in flight on the
\* new connection.
C8_Witness ==
    /\ req.pc = "sent" /\ req.attempts > 1
    /\ req.first_on # req.on /\ req.on = port
    /\ sync_lost.count > 0

\* What list() / listReverse() owe: the keys yielded so far are the first keys
\* of the table in the order asked, each once, and all of them at the end.
ListedInOrder ==
    LET all == IF reverse THEN Descending(table) ELSE Ascending(table) IN
    /\ Len(yielded) <= Len(all)
    /\ yielded = SubSeq(all, 1, Len(yielded))
    /\ list_pc = "done" => yielded = all

\* C9 (as amended): over a table that does not change, with range operations
\* that leave the bound itself out (keys strictly after, for getEndingAt
\* strictly before, the bound), list() yields every entry once in ascending key
\* order and listReverse() yields the same entries once in descending order.
C9_ListsEveryEntryOnce == strict => ListedInOrder

\* C9 as stated: with the range operations of the Store Contract, which keep
\* the bound (key >= bound, key <= bound), the lists are in order and complete.
C9_AsStated == ~strict => ListedInOrder

\* A list over three pages has ended.
C9_Witness ==
    /\ strict /\ list_pc = "done"
    /\ Len(yielded) > 2 * PageSize
    /\ Cardinality(table) = Len(yielded)

\* C10 as stated: the promise of sync() resolves only when no work that was
\* queued at the time of the call is still queued, and at once only if no work
\* was queued at the time of the call.
C10_AsStated == sync_obs.state = "resolved" => ~sync_obs.pending

\* C11 as stated: after set(k, v), and while the write of v is waiting to be
\* flushed, no answer to a fetch of k that was requested before the set (still
\* queued or already sent to the store at the time of the set) is applied to
\* the entry of k: none overwrites v or takes k out of the flush queue.
C11_AsStated == mark.state # "overwritten"

\* C12: entry identity and no eviction.  A tracked key keeps its entry object
\* through every step; get, getIfExists, set and maybeInsert on a tracked key
\* return that object and on an untracked key the one they create; entry
\* objects are not shared between keys.
C12_EntryIdentity ==
    /\ [](\A k \in Keys :
            /\ Tracked(k) =>
                 /\ entries[k] \in Refs /\ heap[entries[k]].key = k
                 /\ CacheGetRet(Cache, k) = entries[k]
                 /\ CacheGetIfExists(Cache, k) = entries[k]
                 /\ \A k2 \in Keys : entries[k2] = entries[k] => k2 = k
            /\ LET ret == CacheGetRet(Cache, k) IN
               /\ CacheGet(Cache, k).entries[k] = ret
               /\ \A v \in Vals : /\ CacheSet(Cache, k, v).entries[k] = ret
                                  /\ CacheMaybeInsert(Cache, k, v).entries[k] = ret)
    /\ [][\A k \in Keys : Tracked(k) =>
            /\ entries'[k] = entries[k]
            /\ heap'[entries[k]].key = k]_vars

\* Both keys are tracked, the second key created first, after a failure of the
\* cycle and a sync-loss that left an entry unset.
C12_Witness ==
    /\ \A k \in Keys : Tracked(k)
    /\ entries[1] = 2 /\ entries[2] = 1
    /\ crash_count > 0
    /\ \E k \in Keys : Value(k) = Null /\ MapHas(needs_fetch, k) /\ MapHas(needs_flush, k)

\* C13 (as amended): a request whose every attempt fails with a transport
\* error is sent to the transport Retries + 1 = 11 times, the first attempt and
\* 10 retries, before the error is raised.
C13_ElevenAttempts ==
    (req.pc = "done" /\ req.result.kind = "transport") =>
        req.attempts = Retries + 1 /\ req.retries = 0

\* C13 as stated: the error is raised after 10 attempts in total.
C13_AsStated ==
    (req.pc = "done" /\ req.result.kind = "transport") => req.attempts = 10

\* The transport error of the eleventh attempt has been raised, after the
\* longest backoff.
C13_Witness ==
    /\ req.pc = "done" /\ req.result = [kind |-> "transport", attempt |-> Retries + 1]
    /\ req.retries = 0 /\ req.delay = (Retries - 1) * BackoffUnit

\* What genericList's loop does in one round: it ends when, and only when, the
\* page is empty, and otherwise moves the bound to the last key of the page.
RoundAdvances ==
    ListStep => LET res == GetChunk(bound, PageSize) IN
                /\ list_pc' = "done" <=> res = <<>>
                /\ res # <<>> => bound' = res[Len(res)] /\ yielded' = yielded \o res

\* C14 (as amended): over a finite table that does not change, with range
\* operations that leave the bound itself out, list() and listReverse() yield
\* no more entries than the table has and come to an end; each round moves the
\* bound to the last key of its page and the iteration ends when, and only
\* when, a page comes back empty.
C14_ListTerminates ==
    /\ [](strict => Len(yielded) <= Cardinality(table))
    /\ (strict ~> (list_pc = "done"))
    /\ [][RoundAdvances]_vars

\* C14 as stated: the same with the range operations of the Store Contract,
\* which keep the bound (key >= bound, key <= bound).
C14_AsStated ==
    /\ [](~strict => Len(yielded) <= Cardinality(table))
    /\ (~strict ~> (list_pc = "done"))
    /\ [][RoundAdvances]_vars

\* listReverse() over the full table has ended, the bound on the least key.
C14_Witness ==
    /\ strict /\ reverse /\ list_pc = "done"
    /\ table = 1..MaxKey /\ Len(yielded) = MaxKey /\ bound = 1

\* C15: maybeInsert(k, v) on an entry that holds a value is a no-op: the
\* entry's value, the fetch queue, the flush queue and the scheduling of the
\* cycle (with every other field of the cache) are what they were, and the
\* entry of k is returned.
C15_MaybeInsertNoOp ==
    \A k \in Keys : (Tracked(k) /\ Value(k) # Null) =>
        /\ CacheGetRet(Cache, k) = entries[k]
        /\ \A v \in Vals : CacheMaybeInsert(Cache, k, v) = Cache

\* maybeInsert has been called with another value on a loaded entry, whose
\* write is waiting while the cycle is fetching, and the entry holds what it
\* held.
C15_Witness ==
    /\ mark.state = "declined" /\ mark.value # mark.kept
    /\ Value(mark.key) = mark.kept
    /\ MapHas(needs_flush, mark.key) /\ io_pc = "fetching"

\* The order in which the one background cycle goes through its positions.
CycleOrder ==
    {<<"idle", "scheduled">>,
     <<"scheduled", "fetching">>, <<"scheduled", "fetched">>, <<"scheduled", "finally">>,
     <<"fetching", "fetched">>, <<"fetching", "crashed">>,
     <<"fetched", "flushing">>, <<"fetched", "flushed">>,
     <<"flushing", "flushed">>, <<"flushing", "crashed">>,
     <<"flushed", "fetching">>, <<"flushed", "fetched">>, <<"flushed", "finally">>,
     <<"crashed", "finally">>, <<"finally", "idle">>}

\* C16: at most one background cycle.  A cycle is started only when none is
\* scheduled or running; a call that schedules I/O while one is leaves the
\* cycle where it is; and a call to the backing store is outstanding only as
\* the one call of the pass the cycle is in.
C16_SingleCycle ==
    /\ [](/\ call.type = "get" <=> io_pc = "fetching"
          /\ call.type = "set" <=> io_pc = "flushing"
          /\ io_pc \notin {"fetching", "flushing"} => call = NoCall /\ io_map = <<>>)
    /\ [][/\ (io_pc' = "scheduled" /\ io_pc # "scheduled") => io_pc = "idle"
          /\ io_pc' # io_pc => <<io_pc, io_pc'>> \in CycleOrder
          /\ call' # call => io_pc \in {"scheduled", "flushed", "fetching", "fetched", "flushing"}
          /\ \A k \in Keys, v \in Vals :
               (io_pc # "idle" /\ (Get(k) \/ Set(k, v) \/ MaybeInsert(k, v) \/ OnSyncLost)) =>
                   UNCHANGED <<io_pc, io_map, call>>]_vars

\* Work for both queues has arrived while the cycle has its call to kvs.get
\* outstanding: calls have scheduled I/O while the cycle was running.
C16_Witness ==
    /\ io_pc = "fetching" /\ call.type = "get"
    /\ needs_fetch # <<>> /\ needs_flush # <<>>
    /\ Range(call.keys) \cap MapKeys(needs_fetch) # {}

\* C17 as stated: once a notification for a tracked key k has been applied, no
\* write of the local value k had before the notification is sent to the
\* backing store, and no answer to a fetch requested before the notification
\* replaces the notified value.
C17_AsStated == mark.state \notin {"replaced", "stale_write"}

\* The keys of a batch of a flush.
SentKeys(c) == {c.entries[i].key : i \in 1..Len(c.entries)}

C19_ReconnectOnlyOnDisconnect ==
    /\ [](connects = 1 + disconnects /\ port = connects)
    /\ [][/\ (Request \/ RequestReturns \/ BackoffDone
                \/ \E kind \in {"transport", "service"} : RequestThrows(kind)) =>
                UNCHANGED <<port, connects, disconnects>>
          /\ (port' # port \/ connects' # connects) =>
                /\ Disconnect
                /\ connects' = connects + 1 /\ disconnects' = disconnects + 1]_vars

\* A request has failed through all its retries across the disconnects, and
\* the connections opened are those of the constructor and of the disconnects.
C19_Witness ==
    /\ disconnects = MaxConnects - 1 /\ connects = MaxConnects /\ port = MaxConnects
    /\ req.pc = "done" /\ req.result.kind = "transport" /\ req.first_on = 1

\* C20 as stated: every entry handed to kvs.set carries a value that is not
\* null.
C20_AsStated ==
    call.type = "set" => \A i \in 1..Len(call.entries) : call.entries[i].value # Null

\* C21 as stated: while background I/O is not disabled (fewer than CrashLimit
\* failures), whenever the fetch queue or the flush queue is not empty a
\* background cycle is pending (scheduled, running or about to clear
\* _pending_io).
C21_AsStated ==
    (crash_count < CrashLimit /\ (needs_fetch # <<>> \/ needs_flush # <<>>)) =>
        io_pc # "idle"

====
